---- MODULE Spec2Model ----
(***************************************************************************)
(* The Medicaid ETL transfer pipeline: the resumable download, the retry   *)
(* decorators that wrap download and upload, the staging upload, the load  *)
(* job's polling loop and the two orchestrators (etl/medicaid_etl.py and   *)
(* etl/upload_to_gcs.py).                                                  *)
(*                                                                         *)
(* Data is modelled in blocks of BlockSize bytes: a file, a response body  *)
(* and the remote source are sequences of blocks, and every size the code  *)
(* computes (st_size, Content-Length, Range offsets) is in bytes.          *)
(***************************************************************************)
EXTENDS Integers, Sequences, FiniteSets, TLC

\* ------------------------------------------------------------- bounds
\* Longest remote source, in blocks.
MaxLen == 3
\* Largest chunk_size, in blocks.
MaxChunk == 2
\* Bytes per modelled block: one missing block is inside the size tolerance,
\* two missing blocks are outside it.
BlockSize == 600
\* Longest error list of a load job.
MaxErrors == 2

\* ------------------------------------------------- program constants
\* stop_after_attempt(5) of download_dataset
DownloadMaxAttempts == 5
\* stop_after_attempt(3) of upload_to_gcs
UploadMaxAttempts == 3
\* abs(actual_size - total_size) > 1024
SizeTolerance == 1024
\* wait_exponential(multiplier=1, min=10, max=300) of download_dataset
DownloadWaitMultiplier == 1
DownloadWaitMin == 10
DownloadWaitMax == 300
\* wait_exponential(multiplier=1, min=30, max=120) of upload_to_gcs
UploadWaitMultiplier == 1
UploadWaitMin == 30
UploadWaitMax == 120
\* exp_base of wait_exponential (its default)
ExpBase == 2
\* the number of queries verify_data and verify run
VerifyQueries == 4

\* ------------------------------------------------------------ helpers
Abs(x) == IF x < 0 THEN -x ELSE x

Min(a, b) == IF a < b THEN a ELSE b

Max(a, b) == IF a > b THEN a ELSE b

Last(s) == s[Len(s)]

Take(s, n) == SubSeq(s, 1, Min(n, Len(s)))

Drop(s, n) == SubSeq(s, Min(n, Len(s)) + 1, Len(s))

SeqsUpTo(S, n) == UNION {[1..k -> S] : k \in 0..n}

Prefixes(s) == {SubSeq(s, 1, k) : k \in 0..Len(s)}

IsPrefix(p, s) == Len(p) <= Len(s) /\ SubSeq(s, 1, Len(p)) = p

\* Sizes as the code sees them, in bytes.
Bytes(s) == Len(s) * BlockSize

\* ------------------------------------------------- exception classes
\* The classes an exception is an instance of. Every requests exception
\* derives from RequestException, which derives from IOError.
Bases(exc) ==
    CASE exc = "ConnectionError" -> {"ConnectionError", "RequestException", "IOError", "Exception"}
      [] exc = "Timeout" -> {"Timeout", "RequestException", "IOError", "Exception"}
      [] exc = "HTTPError" -> {"HTTPError", "RequestException", "IOError", "Exception"}
      [] exc = "IOError" -> {"IOError", "Exception"}
      [] exc = "ValueError" -> {"ValueError", "Exception"}
      [] exc = "RuntimeError" -> {"RuntimeError", "Exception"}
      [] exc = "GoogleAPIError" -> {"GoogleAPIError", "Exception"}
      [] OTHER -> {exc}

\* An outcome of one invocation: a returned value or a raised exception.
\* `at` is the invocation that produced it, `what` the cause.
\* `count` and `records` are what the exception's message carries of a load
\* job's error list.
Returned(v, n) ==
    [ok |-> TRUE, exc |-> "none", what |-> v, at |-> n, count |-> 0, records |-> <<>>]

Raised(e, w, n) ==
    [ok |-> FALSE, exc |-> e, what |-> w, at |-> n, count |-> 0, records |-> <<>>]

NoOutcome ==
    [ok |-> FALSE, exc |-> "none", what |-> "none", at |-> 0, count |-> 0, records |-> <<>>]

\* ------------------------------------------------------- retry policy
\* retry=retry_if_exception_type(...) of the two decorators.
DownloadRetryTypes == {"ConnectionError", "Timeout", "IOError"}

UploadRetryTypes == {"Exception"}

RetryTypes(fn) == IF fn = "download" THEN DownloadRetryTypes ELSE UploadRetryTypes

MaxAttempts(fn) == IF fn = "download" THEN DownloadMaxAttempts ELSE UploadMaxAttempts

\* Every exception is retried, whatever its class.
ShouldRetryAnyException(fn, o) == ~o.ok

\* retry_if_exception_type: the attempt raised an instance of a listed class.
ShouldRetry(fn, o) == ~o.ok /\ (Bases(o.exc) \cap RetryTypes(fn)) # {}

\* The attempts stop one short of the limit.
ShouldStopEarly(fn, attempt_number) == attempt_number >= MaxAttempts(fn) - 1

\* stop_after_attempt(n)
ShouldStop(fn, attempt_number) == attempt_number >= MaxAttempts(fn)

\* Without reraise the used-up execution raises a RetryError of its own.
RetryResultWrapped(o, stopped) ==
    IF stopped /\ ~o.ok THEN Raised("RetryError", "retry", o.at) ELSE o

\* The used-up execution raises a RetryError whose message holds the number
\* of attempts made.
RetryResultCounting(o, stopped) ==
    IF stopped /\ ~o.ok
    THEN [Raised("RetryError", "retry", o.at) EXCEPT !.count = o.at]
    ELSE o

\* reraise=True: what the execution hands its caller when it ends is the
\* outcome of the attempt just made, also when the attempts are used up.
RetryResult(o, stopped) == o

\* wait=wait_exponential(multiplier, min, max) of the two decorators.
WaitMultiplier(fn) == IF fn = "download" THEN DownloadWaitMultiplier ELSE UploadWaitMultiplier

WaitMin(fn) == IF fn = "download" THEN DownloadWaitMin ELSE UploadWaitMin

WaitMax(fn) == IF fn = "download" THEN DownloadWaitMax ELSE UploadWaitMax

RECURSIVE Power(_, _)
Power(b, n) == IF n = 0 THEN 1 ELSE b * Power(b, n - 1)

\* wait_exponential.__call__: multiplier * exp_base ** (attempt_number - 1),
\* clamped from above by max and from below by min.
WaitExponential(fn, attempt_number) ==
    Max(Max(0, WaitMin(fn)),
        Min(WaitMultiplier(fn) * Power(ExpBase, attempt_number - 1), WaitMax(fn)))

\* The hook is never called.
BeforeSleepSilent(h, attempt_number, outcome) == h

\* before_sleep=before_sleep_log(logger, WARNING): called with the retry
\* state, which holds the attempt's number and its outcome.
BeforeSleep(h, attempt_number, outcome) ==
    [count |-> h.count + 1, attempt_number |-> attempt_number, outcome |-> outcome]

\* ---------------------------------------------------------- the state
VARIABLES
    entry,            \* the script that runs: medicaid_etl, upload_to_gcs, bg_upload
    config,           \* what the environment holds of credentials and project
    skip_download,    \* ETLConfig.skip_download
    skip_gcs_upload,  \* ETLConfig.skip_gcs_upload
    chunk_size,       \* ETLConfig.chunk_size, in blocks
    source,           \* the remote file's content
    file_exists,      \* the local file exists
    file,             \* the local file's content
    blob_exists,      \* the destination object exists
    blob,             \* the destination object's content
    pc,               \* main()'s position
    phase,            \* per phase: idle, running, ok, failed, skipped, absent
    rx,               \* the retry execution in progress
    calls,            \* invocations of the wrapped function in this execution
    failures,         \* invocations of this execution that raised
    sleeps,           \* sleeps of this execution
    dl,               \* locals of the download attempt in progress
    interruptions,    \* streams cut by an error in this run
    resumes,          \* attempts that continued a partial file (mode "ab")
    truncated,        \* the last stream ended early without an error
    sent,             \* blocks written to object storage in the upload phase
    blob_at_upload,   \* whether the object existed when the upload phase began
    job,              \* the load job: state and error list
    ld,               \* locals of load_to_bigquery
    log_errors,       \* error records written to the log
    result,           \* how main() ended
    contacted,        \* which external services the run has sent a request to
    local_path,       \* main()'s local_path
    gcs_uri,          \* main()'s gcs_uri
    declared,         \* the total size the last response declared
    delays,           \* the waits of this execution, in seconds
    hook,             \* before_sleep: the calls made and what the last carried
    status_file,      \* the records in the status file
    writes,           \* the states this run wrote to the status file
    view_failed,      \* the view's creation raised
    queries_run,      \* verification queries run so far
    queries_failed,   \* verification queries that raised
    cred_file,        \* the temporary credential file: none, exists, removed
    statistics,       \* the retry object's record of its last finished execution: attempts made
    header_warned     \* validate_csv_header warned of missing columns

envVars == <<entry, config, skip_download, skip_gcs_upload, chunk_size, source>>

fileVars == <<file_exists, file>>

blobVars == <<blob_exists, blob, sent, blob_at_upload>>

rxVars == <<rx, calls, failures, sleeps>>

hookVars == <<delays, hook>>

dlVars == <<dl, interruptions, resumes, truncated>>

loadVars == <<job, ld, log_errors>>

mainVars == <<local_path, gcs_uri>>

statusVars == <<status_file, writes>>

tailVars == <<view_failed, queries_run, queries_failed>>

\* What the retry wrapper and the phase components never touch.
sideVars == <<mainVars, statusVars, tailVars>>

vars == <<envVars, fileVars, blobVars, rxVars, dlVars, loadVars, pc, phase, result,
          contacted, mainVars, declared, hookVars, statusVars, tailVars, cred_file, statistics, header_warned>>

\* The remote contents: block i of a source holds the value i. The code never
\* looks into a block, so a lost, repeated or misplaced block shows as a
\* difference from the source.
Sources == {[i \in 1..n |-> i] : n \in 0..MaxLen}

ErrorRecords == {"e1", "e2"}

NoResponse == [found |-> 0, ranged |-> FALSE, range_start |-> 0, resume_byte |-> 0,
               mode |-> "wb", has_total |-> FALSE, total_size |-> 0, status |-> 0,
               body |-> <<>>]

IdleRx == [fn |-> "none", state |-> "idle", attempt_number |-> 0, outcome |-> NoOutcome]

NoJob == [state |-> "NONE", errors |-> <<>>]

IdleLoad == [pc |-> "idle", seen |-> "NONE", uri |-> "unset", fetched |-> FALSE,
             slept |-> 0, outcome |-> NoOutcome]

IdlePhases == [download |-> "idle", upload |-> "idle", load |-> "idle"]

\* What GCP_SERVICE_ACCOUNT_JSON and GCP_PROJECT_ID can hold: a usable key
\* and a project; no credential; no project; a payload that begins with "{"
\* and is not JSON; a path to no file; JSON (or a file) that parses and is
\* not a service-account key.
Configs == {"valid", "no_credentials", "no_project", "invalid_json", "file_not_found",
            "unusable_key"}

NoContact == [remote |-> FALSE, storage |-> FALSE, warehouse |-> FALSE]

NoDeclared == [known |-> FALSE, total |-> 0]

NoHook == [count |-> 0, attempt_number |-> 0, outcome |-> NoOutcome]

\* config.local_file and config.gcs_uri, as main() passes them on.
LocalFile == "local_path"

GcsUri == "gcs_uri"

\* A record of the status file: write_status(state, **kwargs).
StatusRecord(state, run, error) == [state |-> state, run |-> run, error |-> error]

\* ETLConfig.__init__ and the world the run starts in.
InitCommon ==
    /\ pc = "start"
    /\ config \in Configs
    /\ contacted = NoContact
    /\ local_path = "unset"
    /\ gcs_uri = "unset"
    /\ declared = NoDeclared
    /\ delays = <<>>
    /\ hook = NoHook
    /\ writes = <<>>
    /\ view_failed = FALSE
    /\ queries_run = 0
    /\ queries_failed = 0
    /\ rx = IdleRx
    /\ calls = 0
    /\ failures = 0
    /\ sleeps = 0
    /\ dl = NoResponse
    /\ interruptions = 0
    /\ resumes = 0
    /\ truncated = FALSE
    /\ sent = 0
    /\ blob_at_upload = FALSE
    /\ job = NoJob
    /\ ld = IdleLoad
    /\ log_errors = <<>>
    /\ result = NoOutcome
    /\ header_warned = FALSE
    /\ statistics = 0
    /\ cred_file = "none"

\* medicaid_etl.py: the local file is absent or what an earlier run left.
InitEtl ==
    /\ entry = "medicaid_etl"
    /\ skip_download \in BOOLEAN
    /\ skip_gcs_upload \in BOOLEAN
    /\ source \in Sources
    /\ chunk_size \in 1..MaxChunk
    /\ file_exists \in BOOLEAN
    /\ file \in (IF file_exists THEN Prefixes(source) ELSE {<<>>})
    /\ blob_exists \in BOOLEAN
    /\ blob = (IF blob_exists THEN source ELSE <<>>)
    /\ phase = IdlePhases
    /\ skip_download => chunk_size = 1
    /\ status_file = <<>>

\* upload_to_gcs.py: no download; the local file is given.
InitUpload ==
    /\ entry = "upload_to_gcs"
    /\ skip_download = FALSE
    /\ skip_gcs_upload = FALSE
    /\ source \in Sources
    /\ chunk_size = 1
    /\ file_exists \in BOOLEAN
    /\ file = (IF file_exists THEN source ELSE <<>>)
    /\ blob_exists \in BOOLEAN
    /\ blob = (IF blob_exists THEN source ELSE <<>>)
    /\ phase = [IdlePhases EXCEPT !.download = "absent"]
    /\ status_file = <<>>

\* bg_upload.py: the upload alone; the status file is absent or holds the
\* record an earlier run left.
InitBg ==
    /\ entry = "bg_upload"
    /\ skip_download = FALSE
    /\ skip_gcs_upload = FALSE
    /\ source \in Sources
    /\ chunk_size = 1
    /\ file_exists \in BOOLEAN
    /\ file = (IF file_exists THEN source ELSE <<>>)
    /\ blob_exists \in BOOLEAN
    /\ blob = (IF blob_exists THEN source ELSE <<>>)
    /\ phase = [download |-> "absent", upload |-> "idle", load |-> "absent"]
    /\ status_file \in {<<>>, <<StatusRecord("DONE", "earlier", "none")>>,
                        <<StatusRecord("UPLOADING", "earlier", "none")>>}

Init == (InitEtl \/ InitUpload \/ InitBg) /\ InitCommon

\* ------------------------------------------------- the retry wrapper
\* The attempt count goes on from where the last execution stopped.
StartExecutionContinuing(fn) ==
    /\ rx' = [fn |-> fn, state |-> "ready", attempt_number |-> statistics + 1,
              outcome |-> NoOutcome]
    /\ calls' = 0
    /\ failures' = 0
    /\ sleeps' = 0
    /\ delays' = <<>>
    /\ hook' = NoHook

\* A decorated function is called: a fresh execution, attempt 1.
StartExecution(fn) ==
    /\ rx' = [fn |-> fn, state |-> "ready", attempt_number |-> 1, outcome |-> NoOutcome]
    /\ calls' = 0
    /\ failures' = 0
    /\ sleeps' = 0
    /\ delays' = <<>>
    /\ hook' = NoHook

\* The wrapped function's invocation ended with outcome o.
EndAttempt(o) ==
    /\ rx' = [rx EXCEPT !.state = "returned", !.outcome = o]
    /\ failures' = failures + (IF o.ok THEN 0 ELSE 1)

\* After an attempt: hand the outcome to the caller, or call the hook, sleep
\* and go round again with the attempt's outcome cleared. The function's
\* locals are gone.
RxDecide ==
    /\ rx.state = "returned"
    /\ IF ~ShouldRetry(rx.fn, rx.outcome)
       THEN /\ rx' = [rx EXCEPT !.state = "done",
                                !.outcome = RetryResult(rx.outcome, FALSE)]
            /\ UNCHANGED <<sleeps, hookVars>>
       ELSE IF ShouldStop(rx.fn, rx.attempt_number)
       THEN /\ rx' = [rx EXCEPT !.state = "done",
                                !.outcome = RetryResult(rx.outcome, TRUE)]
            /\ UNCHANGED <<sleeps, hookVars>>
       ELSE /\ hook' = BeforeSleep(hook, rx.attempt_number, rx.outcome)
            /\ delays' = Append(delays, WaitExponential(rx.fn, rx.attempt_number))
            /\ sleeps' = sleeps + 1
            /\ rx' = [rx EXCEPT !.state = "ready", !.outcome = NoOutcome,
                                !.attempt_number = rx.attempt_number + 1]
    /\ dl' = NoResponse
    /\ truncated' = FALSE
    /\ UNCHANGED <<envVars, fileVars, blobVars, loadVars, pc, phase, result,
                   calls, failures, interruptions, resumes,
                   contacted, declared, sideVars>>
    /\ UNCHANGED cred_file
    /\ UNCHANGED statistics
    /\ UNCHANGED header_warned

\* ------------------------------------------------------ the download
\* resume_byte: the size of the file found at local_path, 0 if there is none.
ResumeByte(exists, f) == IF exists THEN Bytes(f) ELSE 0

\* A Range header goes out with every request.
SendsRangeAlways(resume_byte) == TRUE

\* The Range header is sent only when resuming.
SendsRange(resume_byte) == resume_byte > 0

\* headers["Range"] = f"bytes={resume_byte}-": the offset the range starts at.
RangeStart(resume_byte) == IF SendsRange(resume_byte) THEN resume_byte ELSE 0

\* The locals of an attempt once its request is sent.
RequestSent(resume_byte) ==
    [NoResponse EXCEPT !.found = resume_byte, !.ranged = SendsRange(resume_byte),
                       !.range_start = RangeStart(resume_byte)]

\* The remote's answer to a GET with an optional Range: bytes=<start>-, from
\* a remote that honours ranges or one that does not.
ResponseStatus(ranged, start, honours) ==
    IF ranged /\ honours
    THEN (IF start < Bytes(source) THEN 206 ELSE 416)
    ELSE 200

ResponseBody(status, start) ==
    IF status = 206 THEN Drop(source, start \div BlockSize)
    ELSE IF status = 200 THEN source
    ELSE <<>>

\* The file is always opened for writing from byte 0.
OpenModeAlwaysWrite(resume_byte, status) == "wb"

\* A partial file is appended to whatever the remote answered.
OpenModeIgnoringStatus(resume_byte, status) == IF resume_byte > 0 THEN "ab" ELSE "wb"

\* The mode the local file is opened in.
OpenMode(resume_byte, status) ==
    IF resume_byte > 0 /\ status = 206 THEN "ab" ELSE "wb"

\* resume_byte after the status check: reset when the remote ignored the range.
KeptResume(resume_byte, status) ==
    IF resume_byte > 0 /\ status = 206 THEN resume_byte ELSE 0

\* total_size, when the response has a Content-Length.
TotalSize(content_length, resume_byte) == content_length + resume_byte

\* The difference is taken without abs(): a short file is never caught.
SizeMismatchSigned(actual_size, has_total, total_size) ==
    /\ has_total
    /\ total_size # 0
    /\ actual_size - total_size > SizeTolerance

\* The integrity check after the stream: `if total_size and abs(...) > 1024`.
\* A total_size of None or 0 is falsy and skips the check.
SizeMismatch(actual_size, has_total, total_size) ==
    /\ has_total
    /\ total_size # 0
    /\ Abs(actual_size - total_size) > SizeTolerance

\* requests.get raised before any response arrived.
DlConnectFail ==
    /\ rx.fn = "download" /\ rx.state = "ready"
    /\ \E exc \in {"ConnectionError", "Timeout"} :
         EndAttempt(Raised(exc, "connect", calls + 1))
    /\ calls' = calls + 1
    /\ contacted' = [contacted EXCEPT !.remote = TRUE]
    /\ dl' = RequestSent(ResumeByte(file_exists, file))
    /\ UNCHANGED <<envVars, fileVars, blobVars, loadVars, pc, phase, result, sleeps,
                   interruptions, resumes, truncated, declared, hookVars, sideVars>>
    /\ UNCHANGED cred_file
    /\ UNCHANGED statistics
    /\ UNCHANGED header_warned

\* The remote answered with an error status (416 for a range past the end,
\* or a 5xx): raise_for_status raises HTTPError.
DlHttpError ==
    /\ rx.fn = "download" /\ rx.state = "ready"
    /\ LET resume_byte == ResumeByte(file_exists, file)
       IN \E st \in {ResponseStatus(SendsRange(resume_byte), resume_byte, TRUE), 503} :
            /\ st >= 400
            /\ EndAttempt(Raised("HTTPError", IF st = 416 THEN "range" ELSE "server",
                                 calls + 1))
    /\ calls' = calls + 1
    /\ contacted' = [contacted EXCEPT !.remote = TRUE]
    /\ dl' = RequestSent(ResumeByte(file_exists, file))
    /\ UNCHANGED <<envVars, fileVars, blobVars, loadVars, pc, phase, result, sleeps,
                   interruptions, resumes, truncated, declared, hookVars, sideVars>>
    /\ UNCHANGED cred_file
    /\ UNCHANGED statistics
    /\ UNCHANGED header_warned

\* The remote sent a Content-Length that int() cannot parse.
DlBadLength ==
    /\ rx.fn = "download" /\ rx.state = "ready"
    /\ EndAttempt(Raised("ValueError", "content_length", calls + 1))
    /\ calls' = calls + 1
    /\ contacted' = [contacted EXCEPT !.remote = TRUE]
    /\ dl' = RequestSent(ResumeByte(file_exists, file))
    /\ UNCHANGED <<envVars, fileVars, blobVars, loadVars, pc, phase, result, sleeps,
                   interruptions, resumes, truncated, declared, hookVars, sideVars>>
    /\ UNCHANGED cred_file
    /\ UNCHANGED statistics
    /\ UNCHANGED header_warned

\* The request is answered: the file is opened ("wb" truncates it) and the
\* stream begins. The remote declares the length of the body it means to send.
DlRequest ==
    /\ rx.fn = "download" /\ rx.state = "ready"
    /\ \E honours \in BOOLEAN, has_length \in BOOLEAN :
         LET found == ResumeByte(file_exists, file)
             status == ResponseStatus(SendsRange(found), found, honours)
             body == ResponseBody(status, found)
             mode == OpenMode(found, status)
             resume_byte == KeptResume(found, status)
         IN /\ status < 400
            /\ dl' = [found |-> found, ranged |-> SendsRange(found),
                      range_start |-> RangeStart(found),
                      resume_byte |-> resume_byte, mode |-> mode,
                      has_total |-> has_length,
                      total_size |-> IF has_length
                                     THEN TotalSize(Bytes(body), resume_byte) ELSE 0,
                      status |-> status, body |-> body]
            /\ file' = (IF mode = "ab" THEN file ELSE <<>>)
            /\ resumes' = resumes + (IF mode = "ab" THEN 1 ELSE 0)
            /\ declared' = [known |-> has_length,
                            total |-> IF has_length
                                      THEN TotalSize(Bytes(body), resume_byte) ELSE 0]
    /\ file_exists' = TRUE
    /\ rx' = [rx EXCEPT !.state = "running"]
    /\ calls' = calls + 1
    /\ truncated' = FALSE
    /\ contacted' = [contacted EXCEPT !.remote = TRUE]
    /\ UNCHANGED <<envVars, blobVars, loadVars, pc, phase, result, sleeps,
                   failures, interruptions, hookVars, sideVars>>
    /\ UNCHANGED cred_file
    /\ UNCHANGED statistics
    /\ UNCHANGED header_warned

\* One iteration of iter_content: the next chunk is appended to the file.
DlChunk ==
    /\ rx.fn = "download" /\ rx.state = "running"
    /\ dl.body # <<>>
    /\ file' = file \o Take(dl.body, chunk_size)
    /\ dl' = [dl EXCEPT !.body = Drop(dl.body, chunk_size)]
    /\ UNCHANGED <<envVars, blobVars, rxVars, loadVars, pc, phase, result,
                   file_exists, interruptions, resumes, truncated,
                   contacted, declared, hookVars, sideVars>>
    /\ UNCHANGED cred_file
    /\ UNCHANGED statistics
    /\ UNCHANGED header_warned

\* The stream is cut by an error: the connection drops, or a write fails.
DlStreamError ==
    /\ rx.fn = "download" /\ rx.state = "running"
    /\ \E exc \in {"ConnectionError", "IOError"} :
         EndAttempt(Raised(exc, "stream", calls))
    /\ dl' = [dl EXCEPT !.body = <<>>]
    /\ interruptions' = interruptions + 1
    /\ UNCHANGED <<envVars, fileVars, blobVars, loadVars, pc, phase, result,
                   calls, sleeps, resumes, truncated,
                   contacted, declared, hookVars, sideVars>>
    /\ UNCHANGED cred_file
    /\ UNCHANGED statistics
    /\ UNCHANGED header_warned

\* The path is returned without the size check.
DownloadOutcomeUnchecked(actual_size, has_total, total_size, n) == Returned("local_path", n)

\* What download_dataset does after the stream: the size check, then the
\* path is returned.
DownloadOutcome(actual_size, has_total, total_size, n) ==
    IF SizeMismatch(actual_size, has_total, total_size)
    THEN Raised("IOError", "size_mismatch", n)
    ELSE Returned("local_path", n)

\* The stream is exhausted.
DlComplete ==
    /\ rx.fn = "download" /\ rx.state = "running"
    /\ dl.body = <<>>
    /\ EndAttempt(DownloadOutcome(Bytes(file), dl.has_total, dl.total_size, calls))
    /\ UNCHANGED <<envVars, fileVars, blobVars, dlVars, loadVars, pc, phase, result,
                   calls, sleeps, contacted, declared, hookVars, sideVars>>
    /\ UNCHANGED cred_file
    /\ UNCHANGED statistics
    /\ UNCHANGED header_warned

\* The stream ends before the whole body arrived and no error is raised.
DlPrematureEnd ==
    /\ rx.fn = "download" /\ rx.state = "running"
    /\ dl.body # <<>>
    /\ EndAttempt(DownloadOutcome(Bytes(file), dl.has_total, dl.total_size, calls))
    /\ dl' = [dl EXCEPT !.body = <<>>]
    /\ truncated' = TRUE
    /\ UNCHANGED <<envVars, fileVars, blobVars, loadVars, pc, phase, result,
                   calls, sleeps, interruptions, resumes,
                   contacted, declared, hookVars, sideVars>>
    /\ UNCHANGED cred_file
    /\ UNCHANGED statistics
    /\ UNCHANGED header_warned

Download ==
    \/ DlConnectFail
    \/ DlHttpError
    \/ DlBadLength
    \/ DlRequest
    \/ DlChunk
    \/ DlStreamError
    \/ DlComplete
    \/ DlPrematureEnd

\* --------------------------------------------- medicaid_etl.py: main
\* validate() stops after the two required settings and never resolves the
\* credentials.
ValidatesWithoutResolving(c) == c \notin {"no_credentials", "no_project"}

\* ETLConfig.validate and _resolve_credentials: both settings are there, a
\* payload that begins with "{" parses as JSON, a path names a file.
Validates(c) == c \notin {"no_credentials", "no_project", "invalid_json", "file_not_found"}

\* get_credentials: from_service_account_file accepts the resolved file.
CredentialsLoad(c) == c = "valid"

\* Whether the script writes the credential to a temporary file at startup,
\* the credential being given as content wherever it is given. medicaid_etl.py
\* writes it once the content has parsed as JSON; the other scripts write
\* whatever the variable holds, once the variables they read first are there.
TempFileWritten(e, c) ==
    IF e = "medicaid_etl" THEN c \in {"valid", "unusable_key"}
    ELSE c \notin {"no_credentials", "no_project"}

TempFile(e, c) == IF TempFileWritten(e, c) THEN "exists" ELSE "none"

\* The process ends (next is main()'s last position): the atexit handler of
\* medicaid_etl.py and the finally clause of upload_to_gcs.py unlink the
\* file; bg_upload.py has neither.
AtExit(e, next, cred) ==
    IF e \in {"medicaid_etl", "upload_to_gcs"} /\ next \in {"done", "failed"}
       /\ cred = "exists"
    THEN "removed" ELSE cred

\* The download's exception is swallowed and the run goes on.
AfterDownloadSwallowing(o) == "header"

\* An exception raised by a phase leaves main(): the run ends there.
AfterDownload(o) == IF o.ok THEN "header" ELSE "failed"

AfterUpload(o) == IF o.ok THEN "phase3" ELSE "failed"

\* A failed load sends the run back to the upload.
AfterLoadRetryingUpload(o) == IF o.ok THEN "view" ELSE "phase2"

AfterLoad(o) == IF o.ok THEN "view" ELSE "failed"

PhaseEnd(o) == IF o.ok THEN "ok" ELSE "failed"

\* config = ETLConfig(); config.validate(): an invalid configuration exits.
EtlStart ==
    /\ entry = "medicaid_etl" /\ pc = "start"
    /\ pc' = (IF Validates(config) THEN "phase1" ELSE "failed")
    /\ result' = (IF Validates(config) THEN result
                  ELSE Raised("SystemExit", "config", 0))
    /\ UNCHANGED <<envVars, fileVars, blobVars, rxVars, dlVars, loadVars, phase,
                   contacted, declared, hookVars, sideVars>>
    /\ cred_file' = AtExit(entry, pc', TempFile(entry, config))
    /\ UNCHANGED statistics
    /\ UNCHANGED header_warned

\* Phase 1: skip the download (the local file must exist) or run it.
EtlPhase1 ==
    /\ entry = "medicaid_etl" /\ pc = "phase1"
    /\ IF skip_download
       THEN /\ pc' = (IF file_exists THEN "header" ELSE "failed")
            /\ phase' = [phase EXCEPT !.download =
                            IF file_exists THEN "skipped" ELSE "failed"]
            /\ result' = (IF file_exists THEN result
                          ELSE Raised("SystemExit", "file_not_found", 0))
            /\ local_path' = LocalFile
            /\ UNCHANGED <<rxVars, hookVars>>
       ELSE /\ pc' = "download"
            /\ phase' = [phase EXCEPT !.download = "running"]
            /\ StartExecution("download")
            /\ UNCHANGED <<result, local_path>>
    /\ UNCHANGED <<envVars, fileVars, blobVars, dlVars, loadVars,
                   contacted, declared, gcs_uri, statusVars, tailVars>>
    /\ cred_file' = AtExit(entry, pc', cred_file)
    /\ UNCHANGED statistics
    /\ UNCHANGED header_warned

\* download_dataset returned or raised.
EtlDownloadReturn ==
    /\ entry = "medicaid_etl" /\ pc = "download"
    /\ rx.fn = "download" /\ rx.state = "done"
    /\ pc' = AfterDownload(rx.outcome)
    /\ phase' = [phase EXCEPT !.download = PhaseEnd(rx.outcome)]
    /\ result' = (IF rx.outcome.ok THEN result ELSE rx.outcome)
    /\ local_path' = (IF rx.outcome.ok THEN rx.outcome.what ELSE local_path)
    /\ rx' = IdleRx
    /\ calls' = 0
    /\ failures' = 0
    /\ sleeps' = 0
    /\ delays' = <<>>
    /\ hook' = NoHook
    /\ interruptions' = 0
    /\ resumes' = 0
    /\ UNCHANGED <<envVars, fileVars, blobVars, loadVars, dl, truncated,
                   contacted, declared, gcs_uri, statusVars, tailVars>>
    /\ cred_file' = AtExit(entry, pc', cred_file)
    /\ statistics' = rx.attempt_number
    /\ UNCHANGED header_warned

\* validate_csv_header: an empty first line raises ValueError; missing
\* columns only warn.
HeaderFound(f) == f # <<>>

\* A header that lacks an expected column raises too.
HeaderRaisesOnMissing(f, missing) == ~HeaderFound(f) \/ missing

\* Whether validate_csv_header raises, for a file f whose header (if it has
\* one) lacks some expected column or lacks none.
HeaderRaises(f, missing) == ~HeaderFound(f)

\* main() calls validate_csv_header(local_path) between phase 1 and phase 2;
\* the header read from the file has every expected column or lacks some.
EtlHeader ==
    /\ entry = "medicaid_etl" /\ pc = "header"
    /\ \E missing \in BOOLEAN :
         /\ pc' = (IF HeaderRaises(file, missing) THEN "failed" ELSE "phase2")
         /\ result' = (IF HeaderRaises(file, missing)
                       THEN Raised("ValueError", "empty_csv", 0) ELSE result)
         /\ header_warned' = (HeaderFound(file) /\ missing)
    /\ UNCHANGED <<envVars, fileVars, blobVars, rxVars, dlVars, loadVars, phase,
                   contacted, declared, hookVars, sideVars>>
    /\ cred_file' = AtExit(entry, pc', cred_file)
    /\ UNCHANGED statistics

\* The upload runs whatever SKIP_GCS_UPLOAD says.
EtlPhase2Uploading ==
    /\ entry = "medicaid_etl" /\ pc = "phase2"
    /\ pc' = "upload"
    /\ phase' = [phase EXCEPT !.upload = "running"]
    /\ blob_at_upload' = blob_exists
    /\ StartExecution("upload")
    /\ UNCHANGED <<envVars, fileVars, blob_exists, blob, sent, dlVars, loadVars, result,
                   contacted, declared, sideVars>>
    /\ cred_file' = AtExit(entry, pc', cred_file)
    /\ UNCHANGED <<statistics, header_warned>>

\* Phase 2: skip the upload (the configured URI is used) or run it.
EtlPhase2 ==
    /\ entry = "medicaid_etl" /\ pc = "phase2"
    /\ IF skip_gcs_upload
       THEN /\ pc' = "phase3"
            /\ phase' = [phase EXCEPT !.upload = "skipped"]
            /\ gcs_uri' = GcsUri
            /\ UNCHANGED <<rxVars, hookVars, blob_at_upload>>
       ELSE /\ pc' = "upload"
            /\ phase' = [phase EXCEPT !.upload = "running"]
            /\ blob_at_upload' = blob_exists
            /\ StartExecution("upload")
            /\ UNCHANGED gcs_uri
    /\ UNCHANGED <<envVars, fileVars, blob_exists, blob, sent, dlVars, loadVars, result,
                   contacted, declared, local_path, statusVars, tailVars>>
    /\ cred_file' = AtExit(entry, pc', cred_file)
    /\ UNCHANGED statistics
    /\ UNCHANGED header_warned

\* medicaid_etl.upload_to_gcs, one attempt whose credentials do not load:
\* get_credentials raises before the storage client exists.
EtlUploadNoCredentials ==
    /\ rx.fn = "upload" /\ rx.state = "ready"
    /\ ~CredentialsLoad(config)
    /\ EndAttempt(Raised("ValueError", "credentials", calls + 1))
    /\ calls' = calls + 1
    /\ UNCHANGED <<envVars, fileVars, blobVars, dlVars, loadVars, pc, phase, result,
                   sleeps, contacted, declared, hookVars, sideVars>>
    /\ UNCHANGED cred_file
    /\ UNCHANGED statistics
    /\ UNCHANGED header_warned

\* medicaid_etl.upload_to_gcs, one attempt: the bucket is looked up and the
\* file is transferred; no check that the object is already there.
EtlUploadOk ==
    /\ rx.fn = "upload" /\ rx.state = "ready"
    /\ CredentialsLoad(config)
    /\ blob' = file
    /\ blob_exists' = TRUE
    /\ sent' = sent + Len(file)
    /\ contacted' = [contacted EXCEPT !.storage = TRUE]
    /\ EndAttempt(Returned(GcsUri, calls + 1))
    /\ calls' = calls + 1
    /\ UNCHANGED <<envVars, fileVars, dlVars, loadVars, pc, phase, result,
                   sleeps, blob_at_upload, declared, hookVars, sideVars>>
    /\ UNCHANGED cred_file
    /\ UNCHANGED statistics
    /\ UNCHANGED header_warned

\* The attempt fails, before or during the transfer.
EtlUploadFail ==
    /\ rx.fn = "upload" /\ rx.state = "ready"
    /\ CredentialsLoad(config)
    /\ \E n \in 0..Len(file) : sent' = sent + n
    /\ contacted' = [contacted EXCEPT !.storage = TRUE]
    /\ EndAttempt(Raised("GoogleAPIError", "upload", calls + 1))
    /\ calls' = calls + 1
    /\ UNCHANGED <<envVars, fileVars, dlVars, loadVars, pc, phase, result,
                   sleeps, blob_exists, blob, blob_at_upload, declared, hookVars,
                   sideVars>>
    /\ UNCHANGED cred_file
    /\ UNCHANGED statistics
    /\ UNCHANGED header_warned

EtlUploadReturn ==
    /\ entry = "medicaid_etl" /\ pc = "upload"
    /\ rx.fn = "upload" /\ rx.state = "done"
    /\ pc' = AfterUpload(rx.outcome)
    /\ phase' = [phase EXCEPT !.upload = PhaseEnd(rx.outcome)]
    /\ result' = (IF rx.outcome.ok THEN result ELSE rx.outcome)
    /\ gcs_uri' = (IF rx.outcome.ok THEN rx.outcome.what ELSE gcs_uri)
    /\ rx' = IdleRx
    /\ calls' = 0
    /\ failures' = 0
    /\ sleeps' = 0
    /\ delays' = <<>>
    /\ hook' = NoHook
    /\ UNCHANGED <<envVars, fileVars, blobVars, dlVars, loadVars,
                   contacted, declared, local_path, statusVars, tailVars>>
    /\ cred_file' = AtExit(entry, pc', cred_file)
    /\ statistics' = rx.attempt_number
    /\ UNCHANGED header_warned

\* create_mapped_view: the view's creation succeeds, or it raises and the
\* exception is caught and logged as a warning; either way it returns.
EtlView ==
    /\ entry = "medicaid_etl" /\ pc = "view"
    /\ \E raised \in BOOLEAN : view_failed' = raised
    /\ pc' = "verify"
    /\ UNCHANGED <<envVars, fileVars, blobVars, rxVars, dlVars, loadVars, phase, result,
                   contacted, declared, hookVars, mainVars, statusVars,
                   queries_run, queries_failed>>
    /\ cred_file' = AtExit(entry, pc', cred_file)
    /\ UNCHANGED statistics
    /\ UNCHANGED header_warned

\* ---------------------------------------------- upload_to_gcs.py: main
\* What the scripts that read os.environ[...] themselves raise at startup:
\* KeyError for a missing variable, ValueError for a payload that is not a
\* service-account key.
StartFailure(c) == IF c \in {"no_credentials", "no_project"} THEN "KeyError" ELSE "ValueError"

\* main() reads the environment and loads the credentials before step 1.
GcsStart ==
    /\ entry = "upload_to_gcs" /\ pc = "start"
    /\ pc' = (IF CredentialsLoad(config) THEN "phase2" ELSE "failed")
    /\ result' = (IF CredentialsLoad(config) THEN result
                  ELSE Raised(StartFailure(config), "config", 0))
    /\ UNCHANGED <<envVars, fileVars, blobVars, rxVars, dlVars, loadVars, phase,
                   contacted, declared, hookVars, sideVars>>
    /\ cred_file' = TempFile(entry, config)
    /\ UNCHANGED statistics
    /\ UNCHANGED header_warned

\* Step 1 begins: upload_to_gcs asks whether the object exists.
GcsUploadBegin ==
    /\ entry = "upload_to_gcs" /\ pc = "phase2"
    /\ pc' = "upload"
    /\ phase' = [phase EXCEPT !.upload = "running"]
    /\ blob_at_upload' = blob_exists
    /\ contacted' = [contacted EXCEPT !.storage = TRUE]
    /\ UNCHANGED <<envVars, fileVars, blob_exists, blob, sent, rxVars, dlVars,
                   loadVars, result, declared, hookVars, sideVars>>
    /\ cred_file' = AtExit(entry, pc', cred_file)
    /\ UNCHANGED statistics
    /\ UNCHANGED header_warned

\* blob.exists(): the upload is skipped and the object's URI returned.
GcsUploadSkip ==
    /\ entry = "upload_to_gcs" /\ pc = "upload"
    /\ blob_exists
    /\ pc' = "phase3"
    /\ phase' = [phase EXCEPT !.upload = "ok"]
    /\ gcs_uri' = GcsUri
    /\ UNCHANGED <<envVars, fileVars, blobVars, rxVars, dlVars, loadVars, result,
                   contacted, declared, hookVars, local_path, statusVars, tailVars>>
    /\ cred_file' = AtExit(entry, pc', cred_file)
    /\ UNCHANGED statistics
    /\ UNCHANGED header_warned

\* No object yet: the file is transferred (getsize raises when it is missing).
GcsUploadTransfer ==
    /\ entry = "upload_to_gcs" /\ pc = "upload"
    /\ ~blob_exists
    /\ file_exists
    /\ pc' = "phase3"
    /\ phase' = [phase EXCEPT !.upload = "ok"]
    /\ blob' = file
    /\ blob_exists' = TRUE
    /\ sent' = sent + Len(file)
    /\ gcs_uri' = GcsUri
    /\ UNCHANGED <<envVars, fileVars, rxVars, dlVars, loadVars, result, blob_at_upload,
                   contacted, declared, hookVars, local_path, statusVars, tailVars>>
    /\ cred_file' = AtExit(entry, pc', cred_file)
    /\ UNCHANGED statistics
    /\ UNCHANGED header_warned

GcsUploadFail ==
    /\ entry = "upload_to_gcs" /\ pc = "upload"
    /\ ~blob_exists
    /\ pc' = "failed"
    /\ phase' = [phase EXCEPT !.upload = "failed"]
    /\ IF file_exists
       THEN /\ \E n \in 0..Len(file) : sent' = sent + n
            /\ result' = Raised("GoogleAPIError", "upload", 0)
       ELSE /\ sent' = sent
            /\ result' = Raised("IOError", "file_not_found", 0)
    /\ UNCHANGED <<envVars, fileVars, rxVars, dlVars, loadVars, blob_exists, blob,
                   blob_at_upload, contacted, declared, hookVars, sideVars>>
    /\ cred_file' = AtExit(entry, pc', cred_file)
    /\ UNCHANGED statistics
    /\ UNCHANGED header_warned

\* create_view lets the exception of a failed creation leave main().
GcsView ==
    /\ entry = "upload_to_gcs" /\ pc = "view"
    /\ \/ /\ pc' = "verify"
          /\ UNCHANGED <<result, view_failed>>
       \/ /\ pc' = "failed"
          /\ view_failed' = TRUE
          /\ result' = Raised("GoogleAPIError", "view", 0)
    /\ UNCHANGED <<envVars, fileVars, blobVars, rxVars, dlVars, loadVars, phase,
                   contacted, declared, hookVars, mainVars, statusVars,
                   queries_run, queries_failed>>
    /\ cred_file' = AtExit(entry, pc', cred_file)
    /\ UNCHANGED statistics
    /\ UNCHANGED header_warned

\* --------------------------------------------------- bg_upload.py: main
\* write_status: the file is opened with "w" and one record is dumped.
WriteStatus(state, error) ==
    /\ status_file' = <<StatusRecord(state, "this", error)>>
    /\ writes' = Append(writes, state)

\* The environment is read and the credentials are loaded, inside the try.
BgStart ==
    /\ entry = "bg_upload" /\ pc = "start"
    /\ IF CredentialsLoad(config)
       THEN /\ pc' = "exists"
            /\ phase' = [phase EXCEPT !.upload = "running"]
            /\ blob_at_upload' = blob_exists
            /\ UNCHANGED <<result, statusVars>>
       ELSE /\ pc' = "failed"
            /\ result' = Raised(StartFailure(config), "config", 0)
            /\ WriteStatus("ERROR", StartFailure(config))
            /\ UNCHANGED <<phase, blob_at_upload>>
    /\ UNCHANGED <<envVars, fileVars, blob_exists, blob, sent, rxVars, dlVars, loadVars,
                   contacted, declared, hookVars, mainVars, tailVars>>
    /\ cred_file' = TempFile(entry, config)
    /\ UNCHANGED statistics
    /\ UNCHANGED header_warned

\* blob.exists() answers: an object that is there is reported DONE; with none
\* the file's size is read (getsize raises when the file is missing) and
\* UPLOADING is written.
BgExists ==
    /\ entry = "bg_upload" /\ pc = "exists"
    /\ contacted' = [contacted EXCEPT !.storage = TRUE]
    /\ IF blob_exists
       THEN /\ WriteStatus("DONE", "none")
            /\ pc' = "cleanup"
            /\ phase' = [phase EXCEPT !.upload = "ok"]
            /\ UNCHANGED result
       ELSE IF file_exists
       THEN /\ WriteStatus("UPLOADING", "none")
            /\ pc' = "transfer"
            /\ UNCHANGED <<phase, result>>
       ELSE /\ WriteStatus("ERROR", "IOError")
            /\ pc' = "failed"
            /\ phase' = [phase EXCEPT !.upload = "failed"]
            /\ result' = Raised("IOError", "file_not_found", 0)
    /\ UNCHANGED <<envVars, fileVars, blobVars, rxVars, dlVars, loadVars,
                   declared, hookVars, mainVars, tailVars>>
    /\ UNCHANGED cred_file
    /\ UNCHANGED statistics
    /\ UNCHANGED header_warned

\* blob.exists() raises.
BgExistsFail ==
    /\ entry = "bg_upload" /\ pc = "exists"
    /\ contacted' = [contacted EXCEPT !.storage = TRUE]
    /\ WriteStatus("ERROR", "GoogleAPIError")
    /\ pc' = "failed"
    /\ phase' = [phase EXCEPT !.upload = "failed"]
    /\ result' = Raised("GoogleAPIError", "exists", 0)
    /\ UNCHANGED <<envVars, fileVars, blobVars, rxVars, dlVars, loadVars,
                   declared, hookVars, mainVars, tailVars>>
    /\ UNCHANGED cred_file
    /\ UNCHANGED statistics
    /\ UNCHANGED header_warned

\* upload_from_filename returns and DONE is written, or it raises.
BgTransfer ==
    /\ entry = "bg_upload" /\ pc = "transfer"
    /\ \/ /\ blob' = file
          /\ blob_exists' = TRUE
          /\ sent' = sent + Len(file)
          /\ WriteStatus("DONE", "none")
          /\ pc' = "cleanup"
          /\ phase' = [phase EXCEPT !.upload = "ok"]
          /\ UNCHANGED result
       \/ /\ \E n \in 0..Len(file) : sent' = sent + n
          /\ WriteStatus("ERROR", "GoogleAPIError")
          /\ pc' = "failed"
          /\ phase' = [phase EXCEPT !.upload = "failed"]
          /\ result' = Raised("GoogleAPIError", "upload", 0)
          /\ UNCHANGED <<blob_exists, blob>>
    /\ UNCHANGED <<envVars, fileVars, blob_at_upload, rxVars, dlVars, loadVars,
                   contacted, declared, hookVars, mainVars, tailVars>>
    /\ UNCHANGED cred_file
    /\ UNCHANGED statistics
    /\ UNCHANGED header_warned

\* After DONE, still inside the try: print and os.unlink(tmp.name). When one
\* of them raises, the handler writes ERROR and re-raises.
BgCleanup ==
    /\ entry = "bg_upload" /\ pc = "cleanup"
    /\ \/ /\ pc' = "done"
          /\ result' = Returned("complete", 0)
          /\ UNCHANGED statusVars
       \/ /\ pc' = "failed"
          /\ result' = Raised("OSError", "unlink", 0)
          /\ WriteStatus("ERROR", "OSError")
    /\ UNCHANGED <<envVars, fileVars, blobVars, rxVars, dlVars, loadVars, phase,
                   contacted, declared, hookVars, mainVars, tailVars>>
    /\ cred_file' = (IF pc' = "done" THEN "removed" ELSE cred_file)
    /\ UNCHANGED statistics
    /\ UNCHANGED header_warned

\* ---------------------------------------------------- load_to_bigquery
\* What load_to_bigquery raises for a job that ended with errors: a
\* RuntimeError whose message holds the number of errors.
LoadFailure(errors) ==
    [Raised("RuntimeError", "load_errors", 0) EXCEPT !.count = Len(errors)]

\* `for error in load_job.errors: logger.error(...)`: every record is
\* written to the log, in order.
LoggedErrors(errors) == errors

\* The error list is never looked at.
LoadOutcomeIgnoringErrors(errors) == Returned("table", 0)

\* The job's outcome once it is seen DONE: each error is logged, then the
\* RuntimeError is raised; with no error the table's metadata is fetched.
LoadOutcome(errors) ==
    IF errors # <<>> THEN LoadFailure(errors) ELSE Returned("table", 0)

\* time.sleep(15) in medicaid_etl.py, time.sleep(10) in upload_to_gcs.py.
EtlPollInterval == 15

GcsPollInterval == 10

\* The wait grows with every poll.
PollIntervalGrowing(e, slept) == slept + 5

\* The seconds the loop sleeps between two reads of the job's state, after
\* sleeping `slept` seconds the time before.
PollInterval(e, slept) == IF e = "medicaid_etl" THEN EtlPollInterval ELSE GcsPollInterval

\* The job never counts as done.
JobDoneNever(state) == FALSE

\* A job that has left PENDING counts as done.
JobDoneEarly(state) == state # "PENDING"

\* load_job.done(): the job's state is DONE.
JobDone(state) == state = "DONE"

\* Phase 3 begins: the credentials are loaded, the dataset is looked up and
\* the load job is submitted from gcs_uri, or the submission fails.
LoadSubmit ==
    /\ pc = "phase3"
    /\ pc' = "load"
    /\ phase' = [phase EXCEPT !.load = "running"]
    /\ IF ~CredentialsLoad(config)
       THEN /\ ld' = [IdleLoad EXCEPT !.pc = "returned", !.uri = gcs_uri,
                         !.outcome = Raised("ValueError", "credentials", 0)]
            /\ UNCHANGED <<job, contacted>>
       ELSE /\ contacted' = [contacted EXCEPT !.warehouse = TRUE]
            /\ \/ /\ job' = [state |-> "PENDING", errors |-> <<>>]
                  /\ ld' = [IdleLoad EXCEPT !.pc = "check", !.seen = "PENDING",
                                            !.uri = gcs_uri]
               \/ /\ job' = job
                  /\ ld' = [IdleLoad EXCEPT !.pc = "returned", !.uri = gcs_uri,
                               !.outcome = Raised("GoogleAPIError", "submit", 0)]
    /\ UNCHANGED <<envVars, fileVars, blobVars, rxVars, dlVars, log_errors, result,
                   declared, hookVars, sideVars>>
    /\ cred_file' = AtExit(entry, pc', cred_file)
    /\ UNCHANGED statistics
    /\ UNCHANGED header_warned

\* The warehouse starts the job.
JobRun ==
    /\ job.state = "PENDING"
    /\ job' = [job EXCEPT !.state = "RUNNING"]
    /\ UNCHANGED <<envVars, fileVars, blobVars, rxVars, dlVars, ld, log_errors,
                   pc, phase, result, contacted, declared, hookVars, sideVars>>
    /\ UNCHANGED cred_file
    /\ UNCHANGED statistics
    /\ UNCHANGED header_warned

\* The warehouse ends the job, with or without errors.
JobEnd ==
    /\ job.state \in {"PENDING", "RUNNING"}
    /\ \E errors \in SeqsUpTo(ErrorRecords, MaxErrors) :
         job' = [state |-> "DONE", errors |-> errors]
    /\ UNCHANGED <<envVars, fileVars, blobVars, rxVars, dlVars, ld, log_errors,
                   pc, phase, result, contacted, declared, hookVars, sideVars>>
    /\ UNCHANGED cred_file
    /\ UNCHANGED statistics
    /\ UNCHANGED header_warned

\* `while not load_job.done()`: done() re-reads the job's state.
LoadCheck ==
    /\ pc = "load" /\ ld.pc = "check"
    /\ ld' = [ld EXCEPT !.seen = job.state,
                        !.pc = IF JobDone(job.state) THEN "terminal" ELSE "sleep"]
    /\ UNCHANGED <<envVars, fileVars, blobVars, rxVars, dlVars, job, log_errors,
                   pc, phase, result, contacted, declared, hookVars, sideVars>>
    /\ UNCHANGED cred_file
    /\ UNCHANGED statistics
    /\ UNCHANGED header_warned

\* The loop's body: sleep, reload, report the state.
LoadSleepReload ==
    /\ pc = "load" /\ ld.pc = "sleep"
    /\ ld' = [ld EXCEPT !.seen = job.state, !.pc = "check",
                        !.slept = PollInterval(entry, ld.slept)]
    /\ UNCHANGED <<envVars, fileVars, blobVars, rxVars, dlVars, job, log_errors,
                   pc, phase, result, contacted, declared, hookVars, sideVars>>
    /\ UNCHANGED cred_file
    /\ UNCHANGED statistics
    /\ UNCHANGED header_warned

\* After the loop: the error list decides; get_table is called only when the
\* list is empty.
LoadTerminal ==
    /\ pc = "load" /\ ld.pc = "terminal"
    /\ ld' = [ld EXCEPT !.pc = "returned", !.outcome = LoadOutcome(job.errors),
                        !.fetched = LoadOutcome(job.errors).ok]
    /\ log_errors' = LoggedErrors(job.errors)
    /\ UNCHANGED <<envVars, fileVars, blobVars, rxVars, dlVars, job, pc, phase, result,
                   contacted, declared, hookVars, sideVars>>
    /\ UNCHANGED cred_file
    /\ UNCHANGED statistics
    /\ UNCHANGED header_warned

\* load_to_bigquery returned or raised.
LoadReturn ==
    /\ pc = "load" /\ ld.pc = "returned"
    /\ pc' = AfterLoad(ld.outcome)
    /\ phase' = [phase EXCEPT !.load = PhaseEnd(ld.outcome)]
    /\ result' = (IF ld.outcome.ok THEN result ELSE ld.outcome)
    /\ ld' = [ld EXCEPT !.pc = "idle"]
    /\ UNCHANGED <<envVars, fileVars, blobVars, rxVars, dlVars, job, log_errors,
                   contacted, declared, hookVars, sideVars>>
    /\ cred_file' = AtExit(entry, pc', cred_file)
    /\ UNCHANGED statistics
    /\ UNCHANGED header_warned

\* verify_data / verify, one query of the loop: it runs, or it raises and
\* the exception is caught and reported.
VerifyQuery ==
    /\ pc = "verify"
    /\ queries_run < VerifyQueries
    /\ queries_run' = queries_run + 1
    /\ \E raised \in BOOLEAN :
         queries_failed' = queries_failed + (IF raised THEN 1 ELSE 0)
    /\ UNCHANGED <<envVars, fileVars, blobVars, rxVars, dlVars, loadVars, pc, phase,
                   result, contacted, declared, hookVars, mainVars, statusVars,
                   view_failed>>
    /\ UNCHANGED cred_file
    /\ UNCHANGED statistics
    /\ UNCHANGED header_warned

\* The loop is over: main() logs the completion and returns.
Verify ==
    /\ pc = "verify"
    /\ queries_run = VerifyQueries
    /\ pc' = "done"
    /\ result' = Returned("complete", 0)
    /\ UNCHANGED <<envVars, fileVars, blobVars, rxVars, dlVars, loadVars, phase,
                   contacted, declared, hookVars, sideVars>>
    /\ cred_file' = AtExit(entry, pc', cred_file)
    /\ UNCHANGED statistics
    /\ UNCHANGED header_warned

Next ==
    \/ EtlStart
    \/ EtlPhase1
    \/ Download
    \/ RxDecide
    \/ EtlDownloadReturn
    \/ EtlHeader
    \/ EtlPhase2
    \/ EtlUploadNoCredentials
    \/ EtlUploadOk
    \/ EtlUploadFail
    \/ EtlUploadReturn
    \/ EtlView
    \/ GcsStart
    \/ GcsUploadBegin
    \/ GcsUploadSkip
    \/ GcsUploadTransfer
    \/ GcsUploadFail
    \/ GcsView
    \/ BgStart
    \/ BgExists
    \/ BgExistsFail
    \/ BgTransfer
    \/ BgCleanup
    \/ LoadSubmit
    \/ JobRun
    \/ JobEnd
    \/ LoadCheck
    \/ LoadSleepReload
    \/ LoadTerminal
    \/ LoadReturn
    \/ VerifyQuery
    \/ Verify

Spec == Init /\ [][Next]_vars

\* The load runner is a sequential program that keeps running: each of its
\* steps is taken once it is enabled. Nothing makes the warehouse start or
\* end the job.
LoadRunnerFairness ==
    /\ WF_vars(LoadCheck)
    /\ WF_vars(LoadSleepReload)
    /\ WF_vars(LoadTerminal)
    /\ WF_vars(LoadReturn)

LiveSpec == Spec /\ LoadRunnerFairness

\* ================================================== the properties
\* The classes each decorator lists as retryable, and its attempt limit.
Listed(fn) ==
    IF fn = "download" THEN {"ConnectionError", "Timeout", "IOError"} ELSE {"Exception"}

Limit(fn) == IF fn = "download" THEN DownloadMaxAttempts ELSE UploadMaxAttempts

RetryableFailure(fn, o) == ~o.ok /\ (Bases(o.exc) \cap Listed(fn)) # {}

FatalFailure(fn, o) == ~o.ok /\ (Bases(o.exc) \cap Listed(fn)) = {}

InExecution == rx.fn \in {"download", "upload"}

\* C1: an operation that fails k < max_attempts times with retryable failures
\* and then succeeds is invoked exactly k+1 times and its success value is
\* returned: an execution that ended in success made one call more than it
\* saw failures and returns the last call's value, and after a retryable
\* failure with attempts left the execution goes on to the next attempt.
C1_SucceedsAfterRetries ==
    /\ [](InExecution /\ rx.state = "done" /\ rx.outcome.ok =>
            /\ calls = failures + 1
            /\ failures < Limit(rx.fn)
            /\ rx.outcome.at = calls
            /\ rx.outcome.what = (IF rx.fn = "download" THEN "local_path" ELSE "gcs_uri"))
    /\ [][(InExecution /\ rx.state = "returned" /\ RetryableFailure(rx.fn, rx.outcome)
             /\ calls < Limit(rx.fn))
          => (rx'.state = "ready" /\ calls' = calls)]_vars
    /\ [][(InExecution /\ rx.state = "returned" /\ rx.outcome.ok)
          => (rx'.state = "done" /\ rx'.outcome = rx.outcome /\ calls' = calls)]_vars

\* Two failed uploads, then a successful third one, under max_attempts = 3.
C1_Witness ==
    /\ rx.fn = "upload" /\ rx.state = "done" /\ rx.outcome.ok
    /\ calls = 3 /\ failures = 2

\* C2: a failure that matches none of the listed classes ends the execution
\* at once: the next step hands that failure to the caller, with no sleep
\* and no further call; when it is the first call's failure the operation
\* was invoked exactly once.
C2_FatalNotRetried ==
    /\ [][(InExecution /\ rx.state = "returned" /\ FatalFailure(rx.fn, rx.outcome))
          => (rx'.state = "done" /\ rx'.outcome = rx.outcome
              /\ calls' = calls /\ sleeps' = sleeps)]_vars
    /\ [](InExecution /\ rx.state = "done" /\ FatalFailure(rx.fn, rx.outcome)
              /\ sleeps = 0
          => calls = 1 /\ rx.outcome.at = 1)
    /\ [](InExecution /\ rx.state = "done" /\ FatalFailure(rx.fn, rx.outcome)
          => rx.outcome.at = calls /\ sleeps = calls - 1)

\* A malformed Content-Length on the first download attempt.
C2_Witness ==
    /\ rx.fn = "download" /\ rx.state = "done"
    /\ rx.outcome.exc = "ValueError"
    /\ calls = 1 /\ sleeps = 0

\* C3: when every try fails with a retryable failure the operation is
\* invoked exactly max_attempts times, never more, and the caller gets the
\* failure of the last invocation unchanged.
C3_ExhaustedReturnsLastFailure ==
    /\ [](InExecution => calls <= Limit(rx.fn))
    /\ [](InExecution /\ rx.state = "done" /\ ~rx.outcome.ok /\ failures = calls
              /\ ~FatalFailure(rx.fn, rx.outcome)
          => /\ calls = Limit(rx.fn)
             /\ RetryableFailure(rx.fn, rx.outcome)
             /\ rx.outcome.at = calls)
    /\ [][(InExecution /\ rx.state = "returned" /\ rx'.state = "done")
          => rx'.outcome = rx.outcome]_vars

\* Five download attempts, the fifth cut by a dropped connection.
C3_Witness ==
    /\ rx.fn = "download" /\ rx.state = "done"
    /\ rx.outcome.exc = "ConnectionError" /\ rx.outcome.what = "stream"
    /\ calls = 5 /\ failures = 5 /\ rx.outcome.at = 5

Downloading == rx.fn = "download" /\ rx.state = "running"

DownloadReturned == rx.fn = "download" /\ rx.state = "returned"

\* The stream of the attempt ran to its end (no exception cut it).
StreamEnded == DownloadReturned /\ (rx.outcome.ok \/ rx.outcome.what = "size_mismatch")

\* C4: however a download is interrupted and resumed (each resume answered
\* with partial content from the requested offset), a download that returns
\* after a whole stream leaves the file byte-identical to the source, which
\* is what one uninterrupted pass writes; while an attempt streams, the
\* bytes on disk followed by the bytes still to come are the source.
C4_ResumedDownloadIdentical ==
    /\ Downloading => file \o dl.body = source
    /\ DownloadReturned /\ rx.outcome.ok /\ ~truncated => file = source

\* A first pass and a resumed pass are each cut by an error, a second resume
\* completes the three-block file: three calls, two answered with 206.
C4_Witness ==
    /\ DownloadReturned /\ rx.outcome.ok /\ ~truncated
    /\ calls = 3 /\ interruptions = 2 /\ resumes = 2
    /\ dl.status = 206 /\ dl.mode = "ab" /\ dl.found > 0
    /\ Len(source) = 3 /\ file = source

\* C5: a non-empty partial file whose range request is answered with full
\* content is discarded: the file is rewritten from byte 0 and, when the
\* stream has run to its end, holds each source byte exactly once.
C5_FullResponseRestarts ==
    (rx.fn = "download" /\ rx.state \in {"running", "returned"}
        /\ dl.found > 0 /\ dl.status = 200)
    => /\ dl.mode = "wb"
       /\ dl.resume_byte = 0
       /\ IsPrefix(file, source)
       /\ (rx.state = "running" => file \o dl.body = source)
       /\ (rx.state = "returned" /\ rx.outcome.ok /\ ~truncated => file = source)

\* A two-block partial file, a 200 answer, and the whole source written anew.
C5_Witness ==
    /\ DownloadReturned /\ rx.outcome.ok /\ ~truncated
    /\ dl.found = 2 * BlockSize /\ dl.status = 200
    /\ Len(source) = 3 /\ file = source

\* C6: a download whose stream ended never returns success with the file's
\* size more than the tolerance away from the declared total (Content-Length
\* plus the resumed offset): it raises the size-mismatch IOError instead.
C6_SizeMismatchFails ==
    (StreamEnded /\ dl.has_total)
    => /\ (rx.outcome.ok => Abs(Bytes(file) - dl.total_size) <= SizeTolerance)
       /\ (Abs(Bytes(file) - dl.total_size) > SizeTolerance
              => ~rx.outcome.ok /\ rx.outcome.exc = "IOError"
                 /\ rx.outcome.what = "size_mismatch")

\* A resumed stream that ends two blocks short of the declared total.
C6_Witness ==
    /\ StreamEnded /\ dl.has_total /\ truncated
    /\ dl.resume_byte > 0
    /\ dl.total_size - Bytes(file) = 2 * BlockSize
    /\ rx.outcome.what = "size_mismatch"

\* C7: a size-mismatch failure of the download is fatal: the retry wrapper's
\* next step hands it to the caller and the download is not invoked again.
C7_SizeMismatchNotRetried ==
    [][(DownloadReturned /\ rx.outcome.what = "size_mismatch")
       => (rx'.state = "done" /\ rx'.outcome = rx.outcome /\ calls' = calls
           /\ sleeps' = sleeps)]_vars

\* C8: whenever the destination object exists when the upload phase runs,
\* the phase sends no byte, leaves the object as it was and succeeds, in
\* every script that uploads.
C8_ExistingObjectNotSentAgain ==
    blob_at_upload
    => /\ sent = 0
       /\ blob_exists /\ blob = source
       /\ phase.upload # "failed"

\* C9, as claimed: a load job that ends with errors makes the runner fail
\* with a failure that carries every error record of the job.
C9_FailureCarriesRecords ==
    (ld.pc = "returned" /\ job.state = "DONE" /\ job.errors # <<>>)
    => (~ld.outcome.ok /\ ld.outcome.records = job.errors)

\* C9, amended: a load job that ends with errors makes the runner fail,
\* never return the table; every error record is written to the log
\* unchanged and in order, and the RuntimeError raised to the caller
\* carries the number of records.
C9_FailsAndLogsRecords ==
    (ld.pc = "returned" /\ job.state = "DONE" /\ job.errors # <<>>)
    => /\ ~ld.outcome.ok
       /\ ld.outcome.exc = "RuntimeError"
       /\ ld.outcome.count = Len(job.errors)
       /\ log_errors = job.errors

\* A job that ended with the two records e1, e2.
C9_Witness ==
    /\ ld.pc = "returned" /\ job.state = "DONE"
    /\ job.errors = <<"e1", "e2">>
    /\ log_errors = <<"e1", "e2">>
    /\ ld.outcome.exc = "RuntimeError" /\ ld.outcome.count = 2

Running(p) == phase[p] = "running"

\* C10: the phases are strictly ordered: the upload begins only after the
\* download returned successfully or was skipped (upload_to_gcs.py has no
\* download), the load only after the upload returned successfully or was
\* skipped, and no two phases are in progress together; the download, the
\* transfer and the load job act only inside their own phase.
C10_PhasesStrictlyOrdered ==
    /\ phase.upload # "idle" => phase.download \in {"ok", "skipped", "absent"}
    /\ phase.load \notin {"idle", "absent"} => phase.upload \in {"ok", "skipped"}
    /\ Cardinality({p \in {"download", "upload", "load"} : Running(p)}) <= 1
    /\ rx.fn = "download" => Running("download")
    /\ rx.fn = "upload" => Running("upload")
    /\ sent > 0 => phase.upload \in {"running", "ok", "failed"}
    /\ job.state # "NONE" => phase.load \in {"running", "ok", "failed"}
    /\ ld.pc # "idle" => Running("load")

\* The load is in progress after a download and an upload that both ran.
C10_Witness ==
    /\ entry = "medicaid_etl"
    /\ phase = [download |-> "ok", upload |-> "ok", load |-> "running"]
    /\ job.state = "RUNNING" /\ sent > 0

\* C11: with SKIP_DOWNLOAD set no request goes to the remote source and the
\* local file is left as it was, with SKIP_GCS_UPLOAD set nothing is written
\* to or asked of object storage; the header check and the upload receive
\* the configured local path and the load receives the configured locator
\* under every combination of the flags; a phase that is not skipped has run
\* to success before the next one starts.
C11_SkippedPhasesNotInvoked ==
    /\ [](entry = "medicaid_etl" /\ skip_download =>
            /\ ~contacted.remote
            /\ rx.fn # "download"
            /\ phase.download \in {"idle", "skipped", "failed"})
    /\ [](entry = "medicaid_etl" /\ skip_gcs_upload =>
            /\ ~contacted.storage
            /\ sent = 0
            /\ rx.fn # "upload"
            /\ phase.upload \in {"idle", "skipped"})
    /\ [](entry = "medicaid_etl" /\ pc \in {"header", "phase2", "upload"}
            => local_path = LocalFile)
    /\ [](entry = "medicaid_etl" /\ phase.load # "idle"
            => gcs_uri = GcsUri /\ ld.uri = GcsUri)
    /\ [](entry = "medicaid_etl" /\ ~skip_download /\ phase.upload # "idle"
            => phase.download = "ok" /\ contacted.remote)
    /\ [](entry = "medicaid_etl" /\ ~skip_gcs_upload /\ phase.load # "idle"
            => phase.upload = "ok" /\ contacted.storage)
    /\ [][skip_download => file' = file /\ file_exists' = file_exists]_vars
    /\ [][skip_gcs_upload => blob' = blob /\ blob_exists' = blob_exists]_vars

\* Both flags set: the load has run from the configured locator and neither
\* the remote source nor object storage was ever asked.
C11_Witness ==
    /\ entry = "medicaid_etl" /\ skip_download /\ skip_gcs_upload
    /\ phase = [download |-> "skipped", upload |-> "skipped", load |-> "ok"]
    /\ local_path = LocalFile /\ ld.uri = GcsUri
    /\ ~contacted.remote /\ ~contacted.storage /\ contacted.warehouse

Begun(p) == phase[p] \in {"running", "ok", "failed"}

\* C12: once the upload or the load has begun in a run whose download
\* response declared a total size, the local file's size is within the
\* tolerance of that total.
C12_NoTruncatedFileStaged ==
    ((Begun("upload") \/ Begun("load")) /\ declared.known)
    => Abs(Bytes(file) - declared.total) <= SizeTolerance

\* The load runs after a resumed download of a three-block source whose last
\* response declared the total.
C12_Witness ==
    /\ Begun("load") /\ Begun("upload") /\ declared.known
    /\ declared.total = 3 * BlockSize
    /\ file = source

AnyPhaseFailed == \E p \in {"download", "upload", "load"} : phase[p] = "failed"

\* C13: once a phase has failed the run is in terminal failure with that
\* failure; no later phase has started, and from then on no phase starts or
\* runs again: nothing is sent to object storage, no service is contacted
\* anew and the retry wrapper and the load runner stay as they are.
C13_NoCrossPhaseRecovery ==
    /\ [](AnyPhaseFailed => pc = "failed" /\ ~result.ok /\ result.exc # "none")
    /\ [](phase.download = "failed" => phase.upload = "idle" /\ phase.load = "idle")
    /\ [](phase.upload = "failed" => phase.load \in {"idle", "absent"})
    /\ [][AnyPhaseFailed =>
            /\ pc' = pc /\ phase' = phase /\ result' = result
            /\ rx' = rx /\ ld' = ld
            /\ sent' = sent /\ blob' = blob /\ contacted' = contacted]_vars

\* A load that failed on the job's errors after an upload that sent the file.
C13_Witness ==
    /\ phase.load = "failed" /\ phase.upload = "ok" /\ sent > 0
    /\ pc = "failed" /\ result.exc = "RuntimeError"
    /\ job.errors # <<>>

\* C14: the status file holds one record, the last one written; every state
\* written is UPLOADING, DONE or ERROR; DONE is written only with the object
\* in place (found, or transferred whole); UPLOADING is the first write; and
\* nothing is written after DONE or ERROR.
C14_StatusWritesFinal ==
    /\ Len(status_file) <= 1
    /\ writes # <<>> => /\ Len(status_file) = 1
                        /\ status_file[1].state = Last(writes)
                        /\ status_file[1].run = "this"
    /\ \A i \in 1..Len(writes) :
         /\ writes[i] \in {"UPLOADING", "DONE", "ERROR"}
         /\ writes[i] = "DONE" => blob_exists /\ (blob_at_upload \/ sent = Len(file))
         /\ writes[i] = "UPLOADING" => i = 1
         /\ i < Len(writes) => writes[i] \notin {"DONE", "ERROR"}

\* C15: whenever a phase has failed the run has ended in failure and its
\* last write to the status file is an ERROR record that carries the
\* failure.
C15_FailureRecorded ==
    AnyPhaseFailed
    => /\ pc = "failed" /\ ~result.ok
       /\ writes # <<>> /\ Last(writes) = "ERROR"
       /\ status_file = <<StatusRecord("ERROR", "this", result.exc)>>

InvalidConfig(c) == c \in {"no_credentials", "no_project", "invalid_json", "file_not_found"}

C17_ExponentialBackoff ==
    InExecution =>
        \E base \in {WaitMin(rx.fn), WaitMultiplier(rx.fn)} :
            \A a \in 1..Len(delays) :
                /\ delays[a] <= WaitMax(rx.fn)
                /\ delays[a] = Min(base * Power(ExpBase, a - 1), WaitMax(rx.fn))

\* C18: the hook has been called once per sleep; each call is made on the
\* step that goes to sleep after a failed attempt, with that attempt's
\* number and failure; no call is made when the execution ends (success,
\* a failure that is not retryable, the last allowed attempt), so a finished
\* execution has notified one time less than it invoked the operation.
C18_HookBeforeEverySleep ==
    /\ [](InExecution => hook.count = sleeps /\ hook.count = Len(delays))
    /\ [](InExecution /\ rx.state = "done" => hook.count = calls - 1)
    /\ [][(InExecution /\ rx.state = "returned" /\ rx'.state = "ready")
          => /\ ~rx.outcome.ok
             /\ hook'.count = hook.count + 1
             /\ hook'.attempt_number = rx.attempt_number
             /\ hook'.outcome = rx.outcome
             /\ sleeps' = sleeps + 1]_vars
    /\ [][(InExecution /\ rx'.fn = rx.fn /\ ~(rx.state = "returned" /\ rx'.state = "ready"))
          => hook' = hook /\ sleeps' = sleeps]_vars

\* An upload that failed twice and succeeded on the third attempt: two
\* notifications, the second for attempt 2.
C18_Witness ==
    /\ rx.fn = "upload" /\ rx.state = "done" /\ rx.outcome.ok
    /\ calls = 3 /\ hook.count = 2
    /\ hook.attempt_number = 2 /\ hook.outcome.exc = "GoogleAPIError"

\* C19: the runner returns the table, and fetches its metadata, only with
\* the job seen DONE and its error list empty; every step of the polling
\* loop re-reads the job's state, and the loop is left only on a state read
\* as DONE.
C19_SummaryOnlyAfterCleanTerminal ==
    /\ [](ld.fetched \/ ld.outcome.ok
            => ld.seen = "DONE" /\ job.state = "DONE" /\ job.errors = <<>>)
    /\ [](ld.fetched <=> ld.outcome.ok)
    /\ [][(ld.pc \in {"check", "sleep"} /\ ld' # ld) => ld'.seen = job.state]_vars
    /\ [][(ld.pc = "check" /\ ld'.pc = "terminal") => job.state = "DONE"]_vars

\* The table is returned for a job that the loop saw RUNNING and then DONE
\* without errors.
C19_Witness ==
    /\ pc = "load" /\ ld.pc = "returned"
    /\ ld.fetched /\ ld.outcome.ok /\ ld.outcome.what = "table"
    /\ ld.seen = "DONE" /\ job.errors = <<>>

\* C20: a failing verification query never aborts the run (every query is
\* run and the run completes), and a failure of the view's creation ends
\* the run in failure.
C20_OnlyVerificationTolerated ==
    /\ [](pc = "done" /\ entry # "bg_upload" => queries_run = VerifyQueries)
    /\ [][pc = "verify" => pc' \in {"verify", "done"}]_vars
    /\ [](view_failed => pc = "failed" /\ ~result.ok)

\* A download attempt whose request has gone out.
Requested == rx.fn = "download" /\ rx.state \in {"running", "returned"}

\* C21: every download attempt takes its offset from the size of the local
\* file as it finds it (0 with no file), sends Range: bytes=<offset>- exactly
\* when the offset is above 0, and opens the file for append, keeping its
\* bytes, exactly when the offset is above 0 and the answer is 206;
\* otherwise the file is rewritten from byte 0.
C21_ResumeOffsetAndRange ==
    /\ [](Requested =>
            /\ dl.ranged = (dl.found > 0)
            /\ (dl.ranged => dl.range_start = dl.found)
            /\ (dl.status # 0 => (dl.mode = "ab" <=> (dl.found > 0 /\ dl.status = 206))))
    /\ [][(rx.fn = "download" /\ rx.state = "ready" /\ rx'.state # "ready")
          => /\ dl'.found = (IF file_exists THEN Bytes(file) ELSE 0)
             /\ (dl'.status # 0 /\ dl'.mode = "ab" => file' = file)
             /\ (dl'.status # 0 /\ dl'.mode = "wb" => file' = <<>>)
             /\ (dl'.status = 0 => file' = file)]_vars

\* A second attempt that found one block on disk, asked for the rest from
\* byte 600 and appends the 206 answer.
C21_Witness ==
    /\ Requested /\ rx.attempt_number = 2
    /\ dl.found = BlockSize /\ dl.ranged /\ dl.range_start = BlockSize
    /\ dl.status = 206 /\ dl.mode = "ab"

\* C22: a download invoked when the local file already holds the whole source
\* succeeds and leaves the file identical to the source, unless the network
\* itself failed in that attempt (no connection, a 5xx, an unparsable length,
\* a cut or short stream); and the run never fails on the remote's answer to
\* the range request.
Complete == dl.found > 0 /\ dl.found = Bytes(source)
NetworkFailed ==
    \/ rx.outcome.what \in {"connect", "server", "content_length", "stream"}
    \/ truncated
C22_RestartIdempotent ==
    /\ (rx.fn = "download" /\ rx.state = "returned" /\ Complete /\ ~NetworkFailed)
          => (rx.outcome.ok /\ file = source)
    /\ (pc = "failed" => result.what # "range")


\* C23: once the load job is DONE the polling loop ends and the runner
\* returns a table summary or a failure; while the job is not DONE a polling
\* runner stays in the loop, every sleep is followed by another read of the
\* job's state, and every sleep lasts the same fixed interval.
Polling == pc = "load" /\ ld.pc \in {"check", "sleep"}
LoadEnded ==
    /\ ld.pc = "returned"
    /\ job.state = "DONE"
    /\ \/ ld.outcome.ok /\ ld.outcome.what = "table"
       \/ ~ld.outcome.ok /\ ld.outcome.what = "load_errors"
C23_PollingEndsWithTheJob ==
    /\ (Polling /\ job.state = "DONE") ~> LoadEnded
    /\ (Polling /\ ld.pc = "sleep") ~> (ld.pc = "check")
    /\ [][(Polling /\ job.state # "DONE") => Polling']_vars
    /\ [](ld.slept \in {0, IF entry = "medicaid_etl" THEN EtlPollInterval
                                                     ELSE GcsPollInterval})
C23_Witness ==
    /\ LoadEnded
    /\ ld.seen = "DONE"
    /\ ld.slept > 0

\* C24: once the process has ended, by success or by a failure, no
\* credential file the run created still exists.
C24_CredentialFileRemoved == pc \in {"done", "failed"} => cred_file # "exists"

\* C25: an execution starts at attempt 1 with nothing counted, slept or
\* handed to the hook, whatever the execution before it did; at every
\* moment its attempt number, its calls and its delays are those of its own
\* attempts alone; and an execution that gives up on a retryable failure has
\* used all of its policy's attempts.
Starting == rx.state = "idle" /\ rx'.state # "idle"
OwnSchedule ==
    /\ rx.attempt_number = sleeps + 1
    /\ calls \in {sleeps, sleeps + 1}
    /\ Len(delays) = sleeps
    /\ \A i \in 1..Len(delays) : delays[i] = WaitExponential(rx.fn, i)
    /\ hook.count = sleeps
Exhausted ==
    /\ InExecution /\ rx.state = "done" /\ failures = Limit(rx.fn)
    /\ (RetryableFailure(rx.fn, rx.outcome) \/ rx.outcome.exc = "RetryError")
GivingUp ==
    /\ InExecution /\ rx.state = "returned" /\ rx'.state = "done"
    /\ failures = Limit(rx.fn) /\ RetryableFailure(rx.fn, rx.outcome)

HeaderChecked == entry = "medicaid_etl" /\ pc = "header" /\ pc' # "header"
C27_HeaderCheckBetweenPhases ==
    /\ [][HeaderChecked =>
            /\ phase.download \in {"ok", "skipped"}
            /\ phase.upload = "idle" /\ phase.load = "idle"
            /\ (file = <<>> => pc' = "failed" /\ result'.exc = "ValueError"
                                /\ result'.what = "empty_csv")
            /\ (file # <<>> => pc' = "phase2" /\ result' = result)]_vars
    /\ [][(entry = "medicaid_etl" /\ pc' = "phase2" /\ pc # "phase2")
            => (pc = "header" /\ file # <<>>)]_vars
    /\ [](result.what = "empty_csv" =>
            /\ pc = "failed" /\ file = <<>> /\ ~header_warned
            /\ phase.upload = "idle" /\ phase.load = "idle"
            /\ ~contacted.storage /\ ~contacted.warehouse
            /\ sent = 0 /\ job = NoJob)
    /\ [](header_warned => result.what # "empty_csv" /\ file # <<>>)

\* The download returned an empty file and the run ended at the header check.
C27_Witness ==
    /\ entry = "medicaid_etl" /\ pc = "failed" /\ result.what = "empty_csv"
    /\ phase.download = "ok" /\ phase.upload = "idle" /\ file = <<>>
============================================================================
